---- MODULE Spec2Model ----
(***************************************************************************)
(* Model of script.py: the AlexNet training script.                        *)
(*                                                                         *)
(*   main                  Setup, then for epoch in range(0, 100):         *)
(*                         adjust_learning_rate -> train -> validate       *)
(*   adjust_learning_rate  AdjustLearningRate / LrOf                       *)
(*   train                 TrainStart .. TrainReturn                       *)
(*   validate              ValStart .. ValReturn                           *)
(*   accuracy              TopKSeqs / Topk / Correct / Accuracy            *)
(*                                                                         *)
(* The network, the loss, the optimizer and the data loaders are external. *)
(* Trainable parameters and optimizer buffers are version numbers that an  *)
(* optimizer step advances; a list of per-batch metrics is kept as its     *)
(* length and its sum, the only two things the script reads from it.       *)
(* Learning rates are counted in units of 1e-5, exactly.  accuracy works on *)
(* float32 tensors: its results are float32 values, counted in units of    *)
(* 2^-23 and rounded to 24 significant bits, ties to even, as the          *)
(* hardware rounds them.                                                   *)
(***************************************************************************)
EXTENDS Integers, Sequences, FiniteSets, TLC

\* ------------------------------------------------------------ bounds
\* The longest batch sequence a loader yields (11 batches reach index 10).
MaxBatches == 11
\* The largest batch for which every combination of score rows and labels is tried.
MaxBatchSize == 2
\* The number of classes the network scores (at least 5 for topk=(1, 5)).
NumClasses == 6
\* The largest device index --gpu may be given.
MaxGpu == 0

\* ------------------------------------------------------------ program constants
TotalEpochs == 100
DecayPeriod == 30
\* 0.01 in units of 1e-5
BaseLR == 1000
\* 0.1 ** n is a division by DecayDivisor ^ n
DecayDivisor == 10
ReportEvery == 10
\* SGD(model.parameters(), ...) makes one parameter group
NumGroups == 1
\* topk=(1, 5)
TopkArg == <<1, 5>>
\* DataLoader(..., batch_size=64): a batch has 1..64 examples (the last may be short)
BatchSize == 64
\* .float(): a float32 has 24 significant bits
SignificandBits == 24

Classes == 1..NumClasses
BatchCounts == {0, 1, MaxBatches}

VARIABLES
    pc,            \* where main is
    gpu,           \* args.gpu: <<>> is None, <<g>> is device index g
    nTrain,        \* len(train_loader)
    nTest,         \* len(test_loader)
    epoch,         \* main's loop variable
    i,             \* the pass's loop variable (batches completed so far)
    lr,            \* param_group['lr'] of each parameter group
    mode,          \* model.training: "train" or "eval"
    modelDevice,   \* where the model's parameters are
    params,        \* version of the trainable parameters
    optState,      \* version of the optimizer's momentum buffers
    gradAccum,     \* backward passes accumulated in .grad since zero_grad
    losses, top1, top5,  \* the pass's metric lists
    acc1,          \* main's acc1
    ret,           \* what the last returned pass returned
    err,           \* the uncaught exception, "" if none
    reported,      \* batch indices of the progress lines printed in this pass
    summaries,     \* summary lines printed in this pass
    ops,           \* optimizer-related calls made for the current batch
    stepsInPass,   \* optimizer steps taken in this pass
    paramsAtValStart, optStateAtValStart,  \* snapshot at validate's entry
    lrCalls, trainCalls, trainReturns, valCalls, valReturns,  \* call counters
    accPc, accIn, accRes   \* a call of accuracy on its own

vars == <<pc, gpu, nTrain, nTest, epoch, i, lr, mode, modelDevice, params,
          optState, gradAccum, losses, top1, top5, acc1, ret, err, reported,
          summaries, ops, stepsInPass, paramsAtValStart, optStateAtValStart,
          lrCalls, trainCalls, trainReturns, valCalls, valReturns,
          accPc, accIn, accRes>>

mainVars == <<pc, gpu, nTrain, nTest, epoch, i, lr, mode, modelDevice, params,
              optState, gradAccum, losses, top1, top5, acc1, ret, err, reported,
              summaries, ops, stepsInPass, paramsAtValStart, optStateAtValStart,
              lrCalls, trainCalls, trainReturns, valCalls, valReturns>>

accVars == <<accPc, accIn, accRes>>

args == <<gpu, nTrain, nTest>>
metrics == <<losses, top1, top5>>
stdout == <<reported, summaries>>
snapshot == <<paramsAtValStart, optStateAtValStart>>
calls == <<lrCalls, trainCalls, trainReturns, valCalls, valReturns>>

\* ------------------------------------------------------------ values
NoneValue == [tag |-> "None"]
Unbound == [tag |-> "unbound"]
Cpu == <<"cpu">>
Cuda(g) == <<"cuda", g>>
\* DataLoader batches are host tensors (pin_memory pins them, it does not move them).
InputDevice == Cpu
TargetDevice == Cpu

EmptyList == [n |-> 0, sum |-> 0]
ListAppend(l, v) == [n |-> l.n + 1, sum |-> l.sum + v]
\* sum(l) / float(len(l)), defined when len(l) > 0
Mean(l) == [num |-> l.sum, den |-> l.n]

RECURSIVE Pow(_, _)
Pow(b, n) == IF n = 0 THEN 1 ELSE b * Pow(b, n - 1)

\* ------------------------------------------------------------ float32
\* 1.0 in units of 2^-23.  Every float32 that is 0 or in [1, 256) is a whole
\* number of these units, and accuracy yields no other value for batches of
\* up to 100 examples.
F32One == Pow(2, SignificandBits - 1)

\* n / d rounded to the nearest integer, ties to even
RoundHalfEven(n, d) ==
    LET q == n \div d
        r == n % d
    IN IF 2 * r < d THEN q
       ELSE IF 2 * r > d THEN q + 1
       ELSE IF q % 2 = 0 THEN q ELSE q + 1

\* The least j from j0 on with n / (d * 2^j) below 2^24
RECURSIVE ExponentOf(_, _, _)
ExponentOf(n, d, j) ==
    IF n \div (d * Pow(2, j)) < Pow(2, SignificandBits) THEN j
    ELSE ExponentOf(n, d, j + 1)

\* The float32 nearest to n / d units (n / d is 0 or at least F32One)
RoundF32(n, d) ==
    LET j == ExponentOf(n, d, 0)
    IN RoundHalfEven(n, d * Pow(2, j)) * Pow(2, j)

\* The Python float 100.0 / batch_size as the float32 operand of mul_
F32Scale(batch_size) == RoundF32(100 * F32One, batch_size)

\* x.item() of a float32 that is a whole number, as that number
Item(x) == x \div F32One

\* LrOf with the decay one epoch early: (epoch + 1) // 30
LrOfOffByOne(e) == BaseLR \div Pow(DecayDivisor, (e + 1) \div DecayPeriod)

\* ------------------------------------------------------------ adjust_learning_rate
LrOf(e) == BaseLR \div Pow(DecayDivisor, e \div DecayPeriod)

SetGroups(groups, rate) == [g \in DOMAIN groups |-> rate]

\* ------------------------------------------------------------ accuracy
\* TopKSeqs that may pick a class it has picked already
RECURSIVE TopKSeqsRepeat(_, _, _)
TopKSeqsRepeat(scores, k, used) ==
    IF k = 0 THEN {<<>>}
    ELSE LET best == {c \in Classes : \A d \in Classes : scores[d] <= scores[c]}
         IN UNION {{<<c>> \o t : t \in TopKSeqsRepeat(scores, k - 1, used \cup {c})} : c \in best}

\* output.topk(maxk, 1, True, True) on one row: the k best class indices, best
\* first; equal scores may come out in either order.
RECURSIVE TopKSeqs(_, _, _)
TopKSeqs(scores, k, used) ==
    IF k = 0 THEN {<<>>}
    ELSE LET rest == Classes \ used
             best == {c \in rest : \A d \in rest : scores[d] <= scores[c]}
         IN UNION {{<<c>> \o t : t \in TopKSeqs(scores, k - 1, used \cup {c})} : c \in best}

\* The first n rows of every pred the call may return.
RECURSIVE TopkRows(_, _, _)
TopkRows(output, maxk, n) ==
    IF n = 0 THEN {<<>>}
    ELSE {Append(p, q) : p \in TopkRows(output, maxk, n - 1),
                         q \in TopKSeqs(output[n], maxk, {})}

\* Every pred the call output.topk(maxk, 1, True, True) may return: one row per example.
Topk(output, maxk) == TopkRows(output, maxk, Len(output))

SeqMax(s) == CHOOSE m \in {s[j] : j \in DOMAIN s} : \A j \in DOMAIN s : s[j] <= m

\* correct = pred.t().eq(target.view(1, -1).expand_as(pred)): row j, column r
Correct(pred, target, maxk) ==
    [j \in 1..maxk |-> [r \in DOMAIN target |-> pred[r][j] = target[r]]]

\* correct[:k].view(-1).float().sum(0)
CorrectK(correct, k, batch_size) ==
    Cardinality({jr \in (1..k) \X (1..batch_size) : correct[jr[1]][jr[2]]})

\* res for one pred: correct_k.mul_(100.0 / batch_size) for each k of topk
Accuracy(pred, target, topk) ==
    LET maxk == SeqMax(topk)
        batch_size == Len(target)
        correct == Correct(pred, target, maxk)
    IN [x \in DOMAIN topk |->
          RoundF32(CorrectK(correct, topk[x], batch_size) * F32Scale(batch_size), 1)]

\* The score rows of the batches considered: class c scores (c - 1) \div w, so
\* w = 1 gives distinct scores and w = 2 ties them in pairs.
TieWidths == {1, 2}
ScoreRows == {[c \in Classes |-> (c - 1) \div w] : w \in TieWidths}

BatchesOfSize(b) ==
    {[output |-> o, target |-> t] : o \in [1..b -> ScoreRows], t \in [1..b -> Classes]}

\* A batch of b examples with distinct scores: the label of the first h is
\* the class scored highest, the label of the others the class scored lowest.
SplitBatch(b, h) ==
    [output |-> [r \in 1..b |-> [c \in Classes |-> c - 1]],
     target |-> [r \in 1..b |-> IF r <= h THEN NumClasses ELSE 1]]

\* criterion(output, target): the loss is external; it is stood for by the
\* number of examples whose label does not have the highest score.
Criterion(output, target) ==
    Cardinality({r \in DOMAIN target :
        \E c \in Classes : output[r][c] > output[r][target[r]]})

\* What one batch of a pass can yield: loss.item(), acc1[0].item(), acc5[0].item().
\* The passes are run on one-example batches with distinct scores, whose
\* accuracies are 0.0 or 100.0.
LoaderBatches ==
    {b \in BatchesOfSize(1) : \A c, d \in Classes : c # d => b.output[1][c] # b.output[1][d]}

BatchMetrics ==
    UNION {{[loss |-> Criterion(b.output, b.target),
             acc1 |-> Item(Accuracy(p, b.target, TopkArg)[1]),
             acc5 |-> Item(Accuracy(p, b.target, TopkArg)[2])] :
               p \in Topk(b.output, SeqMax(TopkArg))} : b \in LoaderBatches}

\* ------------------------------------------------------------ main
Init ==
    /\ pc = "start"
    /\ gpu \in {<<>>} \cup {<<g>> : g \in 0..MaxGpu}
    /\ nTrain \in BatchCounts
    /\ nTest \in BatchCounts
    /\ epoch = 0
    /\ i = 0
    /\ lr = [g \in 1..NumGroups |-> BaseLR]
    /\ mode = "train"
    /\ modelDevice = Cpu
    /\ params = 0
    /\ optState = 0
    /\ gradAccum = 0
    /\ losses = EmptyList /\ top1 = EmptyList /\ top5 = EmptyList
    /\ acc1 = Unbound
    /\ ret = Unbound
    /\ err = ""
    /\ reported = <<>>
    /\ summaries = 0
    /\ ops = <<>>
    /\ stepsInPass = 0
    /\ paramsAtValStart = 0 /\ optStateAtValStart = 0
    /\ lrCalls = 0 /\ trainCalls = 0 /\ trainReturns = 0
    /\ valCalls = 0 /\ valReturns = 0
    /\ accPc = "idle" /\ accIn = <<>> /\ accRes = <<>>

\* An uncaught exception ends the process.
Abort(kind) ==
    /\ pc' = "aborted"
    /\ err' = kind

\* main, lines 145-152: the model, the criterion, the optimizer, the move to the device
Setup ==
    /\ pc = "start"
    /\ modelDevice' = IF gpu = <<>> THEN Cpu ELSE Cuda(gpu[1])
    /\ pc' = "adjust"
    /\ UNCHANGED <<args, epoch, i, lr, mode, params, optState, gradAccum, metrics,
                   acc1, ret, err, stdout, ops, stepsInPass, snapshot, calls>>
    /\ UNCHANGED accVars

\* main, line 155, and adjust_learning_rate
AdjustLearningRate ==
    /\ pc = "adjust"
    /\ lr' = SetGroups(lr, LrOf(epoch))
    /\ lrCalls' = lrCalls + 1
    /\ pc' = "train"
    /\ UNCHANGED <<args, epoch, i, mode, modelDevice, params, optState, gradAccum,
                   metrics, acc1, ret, err, stdout, ops, stepsInPass, snapshot,
                   trainCalls, trainReturns, valCalls, valReturns>>
    /\ UNCHANGED accVars

\* ------------------------------------------------------------ train
\* TrainStart without model.train()
TrainStartNoModeSwitch ==
    /\ pc = "train"
    /\ losses' = EmptyList /\ top1' = EmptyList /\ top5' = EmptyList
    /\ i' = 0
    /\ reported' = <<>> /\ summaries' = 0
    /\ ops' = <<>>
    /\ stepsInPass' = 0
    /\ trainCalls' = trainCalls + 1
    /\ pc' = IF nTrain = 0 THEN "train_return" ELSE "train_forward"
    /\ UNCHANGED <<args, epoch, lr, mode, modelDevice, params, optState, gradAccum,
                   acc1, ret, err, snapshot, lrCalls, trainReturns, valCalls,
                   valReturns>>
    /\ UNCHANGED accVars

\* main, line 158, and train, lines 53-58: model.train(), the empty lists, the loop's entry
TrainStart ==
    /\ pc = "train"
    /\ mode' = "train"
    /\ losses' = EmptyList /\ top1' = EmptyList /\ top5' = EmptyList
    /\ i' = 0
    /\ reported' = <<>> /\ summaries' = 0
    /\ ops' = <<>>
    /\ stepsInPass' = 0
    /\ trainCalls' = trainCalls + 1
    /\ pc' = IF nTrain = 0 THEN "train_return" ELSE "train_forward"
    /\ UNCHANGED <<args, epoch, lr, modelDevice, params, optState, gradAccum,
                   acc1, ret, err, snapshot, lrCalls, trainReturns, valCalls,
                   valReturns>>
    /\ UNCHANGED accVars

\* train, lines 61-67: the forward pass, the loss, the three appends
TrainForward ==
    /\ pc = "train_forward"
    /\ IF modelDevice # InputDevice
       THEN /\ Abort("RuntimeError: device mismatch")
            /\ UNCHANGED <<metrics, ops>>
       ELSE /\ \E m \in BatchMetrics :
                 /\ losses' = ListAppend(losses, m.loss)
                 /\ top1' = ListAppend(top1, m.acc1)
                 /\ top5' = ListAppend(top5, m.acc5)
            /\ ops' = <<"forward">>
            /\ pc' = "train_zero_grad"
            /\ UNCHANGED err
    /\ UNCHANGED <<args, epoch, i, lr, mode, modelDevice, params, optState,
                   gradAccum, acc1, ret, stdout, stepsInPass, snapshot, calls>>
    /\ UNCHANGED accVars

\* TrainZeroGrad with loss.backward() left out: the step comes next
TrainZeroGradThenStep ==
    /\ pc = "train_zero_grad"
    /\ gradAccum' = 0
    /\ ops' = Append(ops, "zero_grad")
    /\ pc' = "train_step"
    /\ UNCHANGED <<args, epoch, i, lr, mode, modelDevice, params, optState,
                   metrics, acc1, ret, err, stdout, stepsInPass, snapshot, calls>>
    /\ UNCHANGED accVars

\* train, line 69: optimizer.zero_grad()
TrainZeroGrad ==
    /\ pc = "train_zero_grad"
    /\ gradAccum' = 0
    /\ ops' = Append(ops, "zero_grad")
    /\ pc' = "train_backward"
    /\ UNCHANGED <<args, epoch, i, lr, mode, modelDevice, params, optState,
                   metrics, acc1, ret, err, stdout, stepsInPass, snapshot, calls>>
    /\ UNCHANGED accVars

\* train, line 70: loss.backward()
TrainBackward ==
    /\ pc = "train_backward"
    /\ gradAccum' = gradAccum + 1
    /\ ops' = Append(ops, "backward")
    /\ pc' = "train_step"
    /\ UNCHANGED <<args, epoch, i, lr, mode, modelDevice, params, optState,
                   metrics, acc1, ret, err, stdout, stepsInPass, snapshot, calls>>
    /\ UNCHANGED accVars

\* train, line 71: optimizer.step()
TrainStep ==
    /\ pc = "train_step"
    /\ params' = params + 1
    /\ optState' = optState + 1
    /\ stepsInPass' = stepsInPass + 1
    /\ ops' = Append(ops, "step")
    /\ pc' = "train_report"
    /\ UNCHANGED <<args, epoch, i, lr, mode, modelDevice, gradAccum, metrics,
                   acc1, ret, err, stdout, snapshot, calls>>
    /\ UNCHANGED accVars

\* TrainReport counting batches from 1: (i + 1) % 10 == 0
TrainReportOneIndexed ==
    /\ pc = "train_report"
    /\ reported' = IF (i + 1) % ReportEvery = 0 THEN Append(reported, i) ELSE reported
    /\ i' = i + 1
    /\ pc' = IF i + 1 < nTrain THEN "train_forward" ELSE "train_return"
    /\ UNCHANGED <<args, epoch, lr, mode, modelDevice, params, optState, gradAccum,
                   metrics, acc1, ret, err, summaries, ops, stepsInPass, snapshot,
                   calls>>
    /\ UNCHANGED accVars

\* train, lines 73-80 and the loop's next iteration (line 58); the lists hold
\* this batch's values, so the averages in the line are defined
TrainReport ==
    /\ pc = "train_report"
    /\ reported' = IF i % ReportEvery = 0 THEN Append(reported, i) ELSE reported
    /\ i' = i + 1
    /\ pc' = IF i + 1 < nTrain THEN "train_forward" ELSE "train_return"
    /\ UNCHANGED <<args, epoch, lr, mode, modelDevice, params, optState, gradAccum,
                   metrics, acc1, ret, err, summaries, ops, stepsInPass, snapshot,
                   calls>>
    /\ UNCHANGED accVars

\* train falls off its end: it returns None, which main discards (line 158)
TrainReturn ==
    /\ pc = "train_return"
    /\ ret' = NoneValue
    /\ trainReturns' = trainReturns + 1
    /\ pc' = "validate"
    /\ UNCHANGED <<args, epoch, i, lr, mode, modelDevice, params, optState,
                   gradAccum, metrics, acc1, err, stdout, ops, stepsInPass,
                   snapshot, lrCalls, trainCalls, valCalls, valReturns>>
    /\ UNCHANGED accVars

\* ------------------------------------------------------------ validate
\* main, line 161, and validate, lines 85-90: model.eval(), the empty lists, the loop's entry
ValStart ==
    /\ pc = "validate"
    /\ mode' = "eval"
    /\ losses' = EmptyList /\ top1' = EmptyList /\ top5' = EmptyList
    /\ i' = 0
    /\ reported' = <<>> /\ summaries' = 0
    /\ ops' = <<>>
    /\ stepsInPass' = 0
    /\ valCalls' = valCalls + 1
    /\ paramsAtValStart' = params
    /\ optStateAtValStart' = optState
    /\ pc' = IF nTest = 0 THEN "val_summary" ELSE "val_forward"
    /\ UNCHANGED <<args, epoch, lr, modelDevice, params, optState, gradAccum,
                   acc1, ret, err, lrCalls, trainCalls, trainReturns, valReturns>>
    /\ UNCHANGED accVars

\* ValForward with train's optimizer block left in
ValForwardWithStep ==
    /\ pc = "val_forward"
    /\ IF modelDevice # InputDevice
       THEN /\ Abort("RuntimeError: device mismatch")
            /\ UNCHANGED <<metrics, ops, params, optState>>
       ELSE /\ \E m \in BatchMetrics :
                 /\ losses' = ListAppend(losses, m.loss)
                 /\ top1' = ListAppend(top1, m.acc1)
                 /\ top5' = ListAppend(top5, m.acc5)
            /\ ops' = <<"forward">>
            /\ params' = params + 1
            /\ optState' = optState + 1
            /\ pc' = "val_report"
            /\ UNCHANGED err
    /\ UNCHANGED <<args, epoch, i, lr, mode, modelDevice, gradAccum, acc1, ret,
                   stdout, stepsInPass, snapshot, calls>>
    /\ UNCHANGED accVars

\* validate, lines 93-99: the forward pass, the loss, the three appends
ValForward ==
    /\ pc = "val_forward"
    /\ IF modelDevice # InputDevice
       THEN /\ Abort("RuntimeError: device mismatch")
            /\ UNCHANGED <<metrics, ops>>
       ELSE /\ \E m \in BatchMetrics :
                 /\ losses' = ListAppend(losses, m.loss)
                 /\ top1' = ListAppend(top1, m.acc1)
                 /\ top5' = ListAppend(top5, m.acc5)
            /\ ops' = <<"forward">>
            /\ pc' = "val_report"
            /\ UNCHANGED err
    /\ UNCHANGED <<args, epoch, i, lr, mode, modelDevice, params, optState,
                   gradAccum, acc1, ret, stdout, stepsInPass, snapshot, calls>>
    /\ UNCHANGED accVars

\* validate, lines 101-108 and the loop's next iteration (line 90)
ValReport ==
    /\ pc = "val_report"
    /\ reported' = IF i % ReportEvery = 0 THEN Append(reported, i) ELSE reported
    /\ i' = i + 1
    /\ pc' = IF i + 1 < nTest THEN "val_forward" ELSE "val_summary"
    /\ UNCHANGED <<args, epoch, lr, mode, modelDevice, params, optState, gradAccum,
                   metrics, acc1, ret, err, summaries, ops, stepsInPass, snapshot,
                   calls>>
    /\ UNCHANGED accVars

\* ValSummary that prints without averaging when the lists are empty
ValSummaryGuarded ==
    /\ pc = "val_summary"
    /\ summaries' = summaries + 1
    /\ pc' = "val_return"
    /\ UNCHANGED <<args, epoch, i, lr, mode, modelDevice, params, optState,
                   gradAccum, metrics, acc1, ret, err, reported, ops, stepsInPass,
                   snapshot, calls>>
    /\ UNCHANGED accVars

\* validate, lines 110-111: the averages are computed first, then the line is printed
ValSummary ==
    /\ pc = "val_summary"
    /\ IF top1.n = 0 \/ top5.n = 0
       THEN /\ Abort("ZeroDivisionError")
            /\ UNCHANGED summaries
       ELSE /\ summaries' = summaries + 1
            /\ pc' = "val_return"
            /\ UNCHANGED err
    /\ UNCHANGED <<args, epoch, i, lr, mode, modelDevice, params, optState,
                   gradAccum, metrics, acc1, ret, reported, ops, stepsInPass,
                   snapshot, calls>>
    /\ UNCHANGED accVars

\* ValReturn that leaves the epoch loop after the first evaluation
ValReturnEarlyStop ==
    /\ pc = "val_return"
    /\ ret' = NoneValue
    /\ acc1' = NoneValue
    /\ valReturns' = valReturns + 1
    /\ epoch' = epoch /\ pc' = "done"
    /\ UNCHANGED <<args, i, lr, mode, modelDevice, params, optState, gradAccum,
                   metrics, err, stdout, ops, stepsInPass, snapshot, lrCalls,
                   trainCalls, trainReturns, valCalls>>
    /\ UNCHANGED accVars

\* validate falls off its end: it returns None, which main binds to acc1
\* (line 161); then the for loop takes its next epoch or ends (line 154)
ValReturn ==
    /\ pc = "val_return"
    /\ ret' = NoneValue
    /\ acc1' = NoneValue
    /\ valReturns' = valReturns + 1
    /\ IF epoch + 1 < TotalEpochs
       THEN epoch' = epoch + 1 /\ pc' = "adjust"
       ELSE epoch' = epoch /\ pc' = "done"
    /\ UNCHANGED <<args, i, lr, mode, modelDevice, params, optState, gradAccum,
                   metrics, err, stdout, ops, stepsInPass, snapshot, lrCalls,
                   trainCalls, trainReturns, valCalls>>
    /\ UNCHANGED accVars

Next ==
    \/ Setup
    \/ AdjustLearningRate
    \/ TrainStart \/ TrainForward \/ TrainZeroGrad \/ TrainBackward
    \/ TrainStep \/ TrainReport \/ TrainReturn
    \/ ValStart \/ ValForward \/ ValReport \/ ValSummary \/ ValReturn

Spec == Init /\ [][Next]_vars

\* ------------------------------------------------------------ accuracy on its own
\* A call accuracy(output, target, topk=(1, 5)): on any batch of 1..MaxBatchSize
\* examples, or on a split batch of 1..BatchSize examples.
InitAcc ==
    /\ pc = "idle"
    /\ gpu = <<>> /\ nTrain = 0 /\ nTest = 0
    /\ epoch = 0 /\ i = 0
    /\ lr = [g \in 1..NumGroups |-> BaseLR]
    /\ mode = "train"
    /\ modelDevice = Cpu
    /\ params = 0 /\ optState = 0 /\ gradAccum = 0
    /\ losses = EmptyList /\ top1 = EmptyList /\ top5 = EmptyList
    /\ acc1 = Unbound /\ ret = Unbound /\ err = ""
    /\ reported = <<>> /\ summaries = 0 /\ ops = <<>> /\ stepsInPass = 0
    /\ paramsAtValStart = 0 /\ optStateAtValStart = 0
    /\ lrCalls = 0 /\ trainCalls = 0 /\ trainReturns = 0
    /\ valCalls = 0 /\ valReturns = 0
    /\ accPc = "call"
    /\ \/ \E b \in 1..MaxBatchSize : accIn \in BatchesOfSize(b)
       \/ \E b \in 1..BatchSize : \E h \in 0..b : accIn = SplitBatch(b, h)
    /\ accRes = <<>>

AccuracyCall ==
    /\ accPc = "call"
    /\ \E pred \in Topk(accIn.output, SeqMax(TopkArg)) :
           accRes' = Accuracy(pred, accIn.target, TopkArg)
    /\ accPc' = "returned"
    /\ UNCHANGED accIn
    /\ UNCHANGED mainVars

NextAcc == AccuracyCall

SpecAcc == InitAcc /\ [][NextAcc]_vars

\* ------------------------------------------------------------ properties
TrainPcs == {"train_forward", "train_zero_grad", "train_backward", "train_step",
             "train_report", "train_return"}
ValPcs == {"val_forward", "val_report", "val_summary", "val_return"}
Counters(a, b, c, d, e) ==
    /\ lrCalls = a /\ trainCalls = b /\ trainReturns = c
    /\ valCalls = d /\ valReturns = e

\* C1: for each epoch 0..99 in increasing order main runs adjust_learning_rate,
\* then the training pass, then the evaluation pass, each once and one after
\* the other; the run ends normally only after the evaluation pass of epoch 99,
\* with 100 of each behind it.
C1_EpochSequence ==
    /\ epoch \in 0..99
    /\ pc = "start" => epoch = 0 /\ Counters(0, 0, 0, 0, 0)
    /\ pc = "adjust" => Counters(epoch, epoch, epoch, epoch, epoch)
    /\ pc = "train" => Counters(epoch + 1, epoch, epoch, epoch, epoch)
    /\ pc \in TrainPcs => Counters(epoch + 1, epoch + 1, epoch, epoch, epoch)
    /\ pc = "validate" => Counters(epoch + 1, epoch + 1, epoch + 1, epoch, epoch)
    /\ pc \in ValPcs => Counters(epoch + 1, epoch + 1, epoch + 1, epoch + 1, epoch)
    /\ pc = "done" => epoch = 99 /\ Counters(100, 100, 100, 100, 100) /\ err = ""
    /\ pc = "aborted" => err # "" /\ valReturns = epoch /\ lrCalls = epoch + 1
    /\ valReturns = 100 => pc = "done"

C1_Witness ==
    pc = "done" /\ valReturns = 100 /\ nTrain = MaxBatches /\ nTest = MaxBatches

\* The rate of the claim, in units of 1e-5: 0.01, 0.001, 0.0001, 0.00001.
ClaimedRate(e) ==
    IF e < 30 THEN 1000 ELSE IF e < 60 THEN 100 ELSE IF e < 90 THEN 10 ELSE 1

C3_EvalLeavesParameters ==
    /\ (valCalls > valReturns \/ (pc \in {"adjust", "train", "done"} /\ valReturns > 0)) =>
           /\ params = paramsAtValStart
           /\ optState = optStateAtValStart
    /\ params = nTrain * trainReturns
                  + (IF trainCalls > trainReturns THEN stepsInPass ELSE 0)

C3_Witness ==
    pc = "val_return" /\ nTest = MaxBatches /\ i = MaxBatches
      /\ params > 0 /\ params = paramsAtValStart

\* C4: for every batch of a training pass zero_grad, backward and step happen
\* once each, in that order, after the batch's forward pass and before the
\* next batch's; a pass takes as many optimizer steps as it has batches.
C4_OptimizerOrder ==
    /\ pc = "train_forward" =>
           /\ stepsInPass = i
           /\ i > 0 => ops = <<"forward", "zero_grad", "backward", "step">>
    /\ pc = "train_zero_grad" => ops = <<"forward">> /\ stepsInPass = i
    /\ pc = "train_backward" => ops = <<"forward", "zero_grad">> /\ stepsInPass = i
    /\ pc = "train_step" =>
           /\ ops = <<"forward", "zero_grad", "backward">>
           /\ gradAccum = 1
           /\ stepsInPass = i
    /\ pc = "train_report" =>
           /\ ops = <<"forward", "zero_grad", "backward", "step">>
           /\ stepsInPass = i + 1
    /\ pc = "train_return" => i = nTrain /\ stepsInPass = nTrain

C4_Witness ==
    pc = "train_return" /\ nTrain = MaxBatches /\ stepsInPass = MaxBatches /\ epoch = 1

\* The indices below c that are multiples of 10, in increasing order.
ClaimedReports(c) == [k \in 1..((c + 9) \div 10) |-> 10 * (k - 1)]

\* C5: in both passes the progress lines printed so far are those of the
\* completed batches whose index is a multiple of 10, once each; a training
\* pass prints no summary line, an evaluation pass prints it once, after its
\* last batch.
C5_Reports ==
    /\ pc \in TrainPcs \cup {"validate"} =>
           /\ reported = ClaimedReports(i)
           /\ summaries = 0
    /\ pc \in {"val_forward", "val_report", "val_summary"} =>
           /\ reported = ClaimedReports(i)
           /\ summaries = 0
    /\ (pc = "val_return" \/ (pc \in {"adjust", "train", "done"} /\ valReturns > 0)) =>
           /\ i = nTest
           /\ reported = ClaimedReports(nTest)
           /\ summaries = 1

C5_Witness ==
    pc = "val_return" /\ nTest = MaxBatches /\ reported = <<0, 10>> /\ summaries = 1

\* What a pass returning its running means would hand to its caller.
MeansTuple == [tag |-> "tuple", loss |-> Mean(losses), top1 |-> Mean(top1),
               top5 |-> Mean(top5)]
FloatValue(m) == [tag |-> "float", value |-> m]

\* C6: each pass returns its three running means, and acc1 in main is the mean
\* top-1 of the evaluation pass that just returned.
C6_PassReturnsMeans ==
    /\ (pc = "validate" /\ nTrain > 0) => ret = MeansTuple
    /\ (pc \in {"adjust", "done"} /\ valReturns > 0) =>
           /\ ret = MeansTuple
           /\ acc1 = FloatValue(Mean(top1))

C8_AccuracyRange ==
    accPc = "returned" =>
        /\ Len(accIn.target) >= 1 /\ NumClasses >= 5
        /\ 0 <= accRes[1] /\ accRes[1] <= 100 * F32One
        /\ 0 <= accRes[2] /\ accRes[2] <= 100 * F32One
        /\ accRes[1] <= accRes[2]

C10_SameDevice ==
    /\ pc \in {"train_forward", "val_forward"} =>
           modelDevice = InputDevice /\ InputDevice = TargetDevice
    /\ err # "RuntimeError: device mismatch"

====
